---- MODULE Spec2Model ----
(***************************************************************************)
(* TalentRank: a model of the scoring and inference core                   *)
(* (NationPredictor, DomainClassifier, TalentRankCalculator), of the       *)
(* orchestrator DeveloperAnalyzer and of the API handler that caches its   *)
(* result.                                                                 *)
(*                                                                         *)
(* Python strings are TLA+ strings, read with Len, SubSeq and \o.  An      *)
(* absent (None) string and the empty string are both "": the code only    *)
(* tests them for truthiness.  Python floats that are quotients of small   *)
(* integers are kept as exact fractions [num, den].                        *)
(***************************************************************************)
EXTENDS Integers, Sequences, FiniteSets, TLC

VARIABLES
    phase,              \* which operation the behaviour exercises, and where it is
    developer_location, \* predict_nation: first argument
    network_locations,  \* predict_nation: second argument
    nation_result,      \* predict_nation: returned (nation, confidence), or NoResult
    repositories,       \* classify_domains: first argument
    contributions,      \* classify_domains: second argument
    domain_result,      \* classify_domains: returned {domain: weight}, or NoResult
    project_metrics,    \* calculate_project_importance: argument
    developer_metrics,  \* calculate_developer_contribution: argument
    score_result,       \* the score either returned, or NoResult
    now,                \* API: datetime.now(), in seconds
    owned_repos,        \* API: the repositories the upstream profile lists
    store,              \* API: the documents of db.developers
    written,            \* API: the requests whose update_one has run
    req                 \* API: each request's handler: position and locals

nationVars == <<developer_location, network_locations, nation_result>>
domainVars == <<repositories, contributions, domain_result>>
scoreVars == <<project_metrics, developer_metrics, score_result>>
apiVars == <<now, owned_repos, store, written, req>>
vars == <<phase, nationVars, domainVars, scoreVars, apiVars>>

\* the API's variables while a single operation is exercised on its own
ApiIdle ==
    /\ now = 0 /\ owned_repos = <<>>
    /\ store = {} /\ written = {} /\ req = <<>>

NoResult == [none |-> TRUE]

-----------------------------------------------------------------------------
(* Strings *)

UpperCase == "ABCDEFGHIJKLMNOPQRSTUVWXYZ"
LowerCase == "abcdefghijklmnopqrstuvwxyz"
Whitespace == {" ", "\t", "\n", "\r"}

CharAt(s, i) == SubSeq(s, i, i)

\* each ASCII capital with its small letter
LowerOf ==
    [c \in {CharAt(UpperCase, i) : i \in 1..Len(UpperCase)} |->
        CharAt(LowerCase, CHOOSE i \in 1..Len(UpperCase) : CharAt(UpperCase, i) = c)]

\* str.lower() of one ASCII character
LowerChar(c) == IF c \in DOMAIN LowerOf THEN LowerOf[c] ELSE c

\* str.lower()
RECURSIVE Lower(_)
Lower(s) ==
    IF Len(s) = 0 THEN ""
    ELSE LowerChar(CharAt(s, 1)) \o Lower(SubSeq(s, 2, Len(s)))

\* str.strip(): leading and trailing whitespace removed
Strip(s) ==
    LET keep == {i \in 1..Len(s) : CharAt(s, i) \notin Whitespace}
    IN  IF keep = {} THEN ""
        ELSE LET lo == CHOOSE i \in keep : \A j \in keep : i <= j
                 hi == CHOOSE i \in keep : \A j \in keep : i >= j
             IN  SubSeq(s, lo, hi)

\* Python's `k in s` for strings
Contains(s, k) ==
    \E i \in 1..(Len(s) - Len(k) + 1) : SubSeq(s, i, i + Len(k) - 1) = k

-----------------------------------------------------------------------------
(* Exact fractions for float quotients of small integers *)

Frac(n, d) == [num |-> n, den |-> d]
FracEq(a, b) == a.num * b.den = b.num * a.den
FracLe(a, b) == a.num * b.den <= b.num * a.den
One == Frac(1, 1)
Zero == Frac(0, 1)

RECURSIVE Gcd(_, _)
Gcd(a, b) == IF b = 0 THEN a ELSE Gcd(b, a % b)

\* the same fraction in lowest terms (for a non-negative numerator)
Reduced(n, d) == LET g == Gcd(n, d) IN Frac(n \div g, d \div g)
FracAdd(a, b) == Reduced(a.num * b.den + b.num * a.den, a.den * b.den)
FracMul(a, b) == Reduced(a.num * b.num, a.den * b.den)

-----------------------------------------------------------------------------
(* NationPredictor *)

\* _load_location_mapping: the table, in dict (insertion) order
location_mapping ==
    << [nation |-> "China",
        keywords |-> <<"china", "cn", "beijing", "shanghai", "guangzhou", "shenzhen">>],
       [nation |-> "United States",
        keywords |-> <<"usa", "us", "united states", "california", "new york">>],
       [nation |-> "India",
        keywords |-> <<"india", "bangalore", "mumbai", "delhi">>],
       [nation |-> "United Kingdom",
        keywords |-> <<"uk", "united kingdom", "london", "manchester">> ] >>

Nations == {location_mapping[i].nation : i \in 1..Len(location_mapping)}

\* Python's None, as returned by _map_location_to_nation
None == "None"

\* any(keyword in location for keyword in keywords)
AnyKeywordIn(keywords, location) ==
    \E k \in 1..Len(keywords) : Contains(location, keywords[k])

\* a plausible slip: the last matching table entry wins instead of the first
MapLocationLastMatch(location) ==
    IF location = "" THEN None
    ELSE LET loc == Strip(Lower(location))
             hits == {i \in 1..Len(location_mapping) :
                        AnyKeywordIn(location_mapping[i].keywords, loc)}
         IN  IF hits = {} THEN None
             ELSE location_mapping[CHOOSE i \in hits : \A j \in hits : j <= i].nation

\* _map_location_to_nation: the first table entry with a keyword in the
\* lowercased, stripped location; None when there is none
map_location_to_nation(location) ==
    IF location = "" THEN None
    ELSE LET loc == Strip(Lower(location))
             hits == {i \in 1..Len(location_mapping) :
                        AnyKeywordIn(location_mapping[i].keywords, loc)}
         IN  IF hits = {} THEN None
             ELSE location_mapping[CHOOSE i \in hits : \A j \in hits : i <= j].nation

\* a plausible slip: the filter tests only `loc`, so unmapped entries stay in
RECURSIVE MappedNationsNoFilter(_)
MappedNationsNoFilter(locs) ==
    IF locs = <<>> THEN <<>>
    ELSE LET loc == Head(locs)
             rest == MappedNationsNoFilter(Tail(locs))
         IN  IF loc # "" THEN <<map_location_to_nation(loc)>> \o rest ELSE rest

\* the list comprehension of _predict_from_network
RECURSIVE MappedNations(_)
MappedNations(locs) ==
    IF locs = <<>> THEN <<>>
    ELSE LET loc == Head(locs)
             rest == MappedNations(Tail(locs))
         IN  IF loc # "" /\ map_location_to_nation(loc) # None
             THEN <<map_location_to_nation(loc)>> \o rest
             ELSE rest

\* collections.Counter(mapped_nations): (element, count) pairs in the order of
\* first occurrence
RECURSIVE CounterAdd(_, _)
CounterAdd(counter, x) ==
    IF counter = <<>> THEN << <<x, 1>> >>
    ELSE IF Head(counter)[1] = x
         THEN << <<x, Head(counter)[2] + 1>> >> \o Tail(counter)
         ELSE <<Head(counter)>> \o CounterAdd(Tail(counter), x)

RECURSIVE CounterOf(_)
CounterOf(xs) ==
    IF xs = <<>> THEN <<>>
    ELSE CounterAdd(CounterOf(SubSeq(xs, 1, Len(xs) - 1)), xs[Len(xs)])

\* a plausible slip: a later entry of equal count replaces the running maximum
RECURSIVE MaxByCountLast(_, _)
MaxByCountLast(best, items) ==
    IF items = <<>> THEN best
    ELSE MaxByCountLast(IF Head(items)[2] >= best[2] THEN Head(items) ELSE best,
                        Tail(items))

MostCommonLast(counter) == MaxByCountLast(Head(counter), Tail(counter))

\* max(items, key=count): a later entry replaces the running maximum only
\* when its count is strictly greater
RECURSIVE MaxByCount(_, _)
MaxByCount(best, items) ==
    IF items = <<>> THEN best
    ELSE MaxByCount(IF Head(items)[2] > best[2] THEN Head(items) ELSE best,
                    Tail(items))

\* Counter.most_common(1)[0], for a non-empty counter
MostCommon(counter) == MaxByCount(Head(counter), Tail(counter))

\* a plausible slip: the confidence is taken over the whole input list
PredictFromNetworkAllLen(locs) ==
    LET mapped_nations == MappedNations(locs)
    IN  IF mapped_nations = <<>>
        THEN [nation |-> "Unknown", confidence |-> Zero]
        ELSE LET most_common == MostCommon(CounterOf(mapped_nations))
             IN  [nation |-> most_common[1],
                  confidence |-> Frac(most_common[2], Len(locs))]

\* _predict_from_network
predict_from_network(locs) ==
    LET mapped_nations == MappedNations(locs)
    IN  IF mapped_nations = <<>>
        THEN [nation |-> "Unknown", confidence |-> Zero]
        ELSE LET most_common == MostCommon(CounterOf(mapped_nations))
                 total_valid == Len(mapped_nations)
             IN  [nation |-> most_common[1],
                  confidence |-> Frac(most_common[2], total_valid)]

\* a plausible slip: the inner `if mapped_nation` is missing
PredictNationNoInnerIf(location, locs) ==
    IF location # ""
    THEN [nation |-> map_location_to_nation(location), confidence |-> One]
    ELSE predict_from_network(locs)

\* predict_nation
predict_nation(location, locs) ==
    IF location # "" /\ map_location_to_nation(location) # None
    THEN [nation |-> map_location_to_nation(location), confidence |-> One]
    ELSE predict_from_network(locs)

-----------------------------------------------------------------------------
(* predict_nation applied to bounded inputs *)

MaxNetwork == 3

DeclaredLocations ==
    {"", "  ", "unknown place", "Beijing, China", "LONDON", "Indiana, USA",
     "Australia", "Chinatown, New York"}

NetworkLocations ==
    {"", "unknown place", "London, UK", "london", "Shanghai", "Austin, USA"}

RECURSIVE SeqsUpTo(_, _)
SeqsUpTo(S, n) ==
    IF n = 0 THEN {<<>>}
    ELSE LET shorter == SeqsUpTo(S, n - 1)
         IN  shorter \cup {Append(s, x) : s \in shorter, x \in S}

InitNation ==
    /\ phase = "predict_nation"
    /\ developer_location \in DeclaredLocations
    /\ network_locations \in SeqsUpTo(NetworkLocations, MaxNetwork)
    /\ nation_result = NoResult
    /\ repositories = <<>> /\ contributions = <<>> /\ domain_result = NoResult
    /\ project_metrics = NoResult /\ developer_metrics = NoResult /\ score_result = NoResult
    /\ ApiIdle

PredictNation ==
    /\ phase = "predict_nation"
    /\ nation_result' = predict_nation(developer_location, network_locations)
    /\ phase' = "returned"
    /\ UNCHANGED <<developer_location, network_locations, domainVars, scoreVars, apiVars>>

NextNation == PredictNation

SpecNation == InitNation /\ [][NextNation]_vars

-----------------------------------------------------------------------------
(* DomainClassifier *)

\* _init_domain_keywords: the table, in dict (insertion) order
domain_keywords ==
    << [domain |-> "Frontend",
        keywords |-> <<"javascript", "typescript", "react", "vue", "angular", "web">>],
       [domain |-> "Backend",
        keywords |-> <<"python", "java", "golang", "nodejs", "django", "spring">>],
       [domain |-> "Mobile",
        keywords |-> <<"android", "ios", "flutter", "react-native", "mobile">>],
       [domain |-> "DevOps",
        keywords |-> <<"docker", "kubernetes", "aws", "cicd", "jenkins">>],
       [domain |-> "AI/ML",
        keywords |-> <<"machine-learning", "deep-learning", "tensorflow", "pytorch">>],
       [domain |-> "Security",
        keywords |-> <<"security", "cryptography", "encryption", "penetration">>],
       [domain |-> "Database",
        keywords |-> <<"mysql", "postgresql", "mongodb", "redis", "elasticsearch">>] >>

\* _classify_by_language: the domains whose keyword list holds the lowercased
\* language as an element
classify_by_language(language) ==
    LET lang == Lower(language)
    IN  {domain_keywords[i].domain : i \in
            {i \in 1..Len(domain_keywords) :
                \E k \in 1..Len(domain_keywords[i].keywords) :
                    domain_keywords[i].keywords[k] = lang}}

\* _classify_by_topics: the domains with a keyword inside a lowercased topic
classify_by_topics(topics) ==
    {domain_keywords[i].domain : i \in
        {i \in 1..Len(domain_keywords) :
            \E t \in 1..Len(topics) :
                AnyKeywordIn(domain_keywords[i].keywords, Lower(topics[t]))}}

\* _analyze_repo_domains: a set, so a domain is in it once however often it matched
analyze_repo_domains(repo) ==
    (IF repo.language # "" THEN classify_by_language(repo.language) ELSE {})
    \cup (IF repo.topics # <<>> THEN classify_by_topics(repo.topics) ELSE {})

MaxRepoWeight == 100
StarsPerWeight == 100

\* _calculate_repo_weight, min(100, stars / 100), in hundredths:
\* stars / 100 <= 100 exactly when stars <= 100 * 100
calculate_repo_weight(repo) ==
    IF repo.stars <= MaxRepoWeight * StarsPerWeight
    THEN repo.stars
    ELSE MaxRepoWeight * StarsPerWeight

\* domain_scores[domain], 0 for a key the defaultdict does not hold yet
ScoreOf(domain_scores, domain) ==
    IF domain \in DOMAIN domain_scores THEN domain_scores[domain] ELSE 0

\* a plausible slip: the matches are kept in a list, so a repository adds its
\* weight once per match of its language and of each of its topics
AddRepoPerMatch(domain_scores, repo) ==
    LET weight == calculate_repo_weight(repo)
        domains == analyze_repo_domains(repo)
        matches(d) ==
            (IF repo.language # "" /\ d \in classify_by_language(repo.language)
             THEN 1 ELSE 0)
            + Cardinality({t \in 1..Len(repo.topics) :
                              d \in classify_by_topics(<<repo.topics[t]>>)})
    IN  [d \in DOMAIN domain_scores \cup domains |->
            ScoreOf(domain_scores, d) + weight * matches(d)]

\* one turn of the loop of classify_domains on domain_scores (in hundredths)
AddRepo(domain_scores, repo) ==
    LET weight == calculate_repo_weight(repo)
        domains == analyze_repo_domains(repo)
    IN  [d \in DOMAIN domain_scores \cup domains |->
            ScoreOf(domain_scores, d) + (IF d \in domains THEN weight ELSE 0)]

RECURSIVE DomainScores(_)
DomainScores(repos) ==
    IF repos = <<>> THEN <<>>
    ELSE AddRepo(DomainScores(SubSeq(repos, 1, Len(repos) - 1)), repos[Len(repos)])

\* a plausible slip: only repositories that match a domain count in the total
RECURSIVE TotalWeightMatched(_)
TotalWeightMatched(repos) ==
    IF repos = <<>> THEN 0
    ELSE (IF analyze_repo_domains(Head(repos)) # {}
          THEN calculate_repo_weight(Head(repos)) ELSE 0)
         + TotalWeightMatched(Tail(repos))

\* total_weight of classify_domains (in hundredths)
RECURSIVE TotalWeight(_)
TotalWeight(repos) ==
    IF repos = <<>> THEN 0
    ELSE calculate_repo_weight(Head(repos)) + TotalWeight(Tail(repos))

\* classify_domains: every accumulated score over the total weight when that
\* is positive, the accumulated scores as they are otherwise
classify_domains(repos, contribs) ==
    LET domain_scores == DomainScores(repos)
        total_weight == TotalWeight(repos)
    IN  IF total_weight > 0
        THEN [d \in DOMAIN domain_scores |-> Frac(domain_scores[d], total_weight)]
        ELSE [d \in DOMAIN domain_scores |-> Frac(domain_scores[d], StarsPerWeight)]

-----------------------------------------------------------------------------
(* classify_domains applied to bounded inputs *)

MaxRepos == 2

StarCounts == {0, 150, 20000}

RepoTags ==
    { [language |-> "JavaScript", topics |-> <<"react", "web-app">>],
      [language |-> "Python",     topics |-> <<"docker">>],
      [language |-> "Rust",       topics |-> <<>>],
      [language |-> "",           topics |-> <<"javascript">>] }

Repositories ==
    {[stars |-> s, language |-> t.language, topics |-> t.topics] :
        s \in StarCounts, t \in RepoTags}

ContributionLists == {<<>>, <<[commits_count |-> 7]>>}

InitDomain ==
    /\ phase = "classify_domains"
    /\ repositories \in SeqsUpTo(Repositories, MaxRepos)
    /\ contributions \in ContributionLists
    /\ domain_result = NoResult
    /\ developer_location = "" /\ network_locations = <<>> /\ nation_result = NoResult
    /\ project_metrics = NoResult /\ developer_metrics = NoResult /\ score_result = NoResult
    /\ ApiIdle

ClassifyDomains ==
    /\ phase = "classify_domains"
    /\ domain_result' = classify_domains(repositories, contributions)
    /\ phase' = "returned"
    /\ UNCHANGED <<repositories, contributions, nationVars, scoreVars, apiVars>>

NextDomain == ClassifyDomains

SpecDomain == InitDomain /\ [][NextDomain]_vars

-----------------------------------------------------------------------------
(* TalentRankCalculator *)

(***************************************************************************)
(* math.log is not computable on integers, so a normalized value is kept   *)
(* as the pair of the nearest multiples of 100 / LogSteps below and above  *)
(* it, found exactly by comparing integer powers:                          *)
(*     k / LogSteps <= log(v+1) / log(b+1)  iff  (b+1)^k <= (v+1)^LogSteps *)
(* A value v >= b gives a quotient >= 1, which min(100, ...) cuts to 100.  *)
(* With the largest baseline (1000), LogSteps = 3 keeps every power below  *)
(* 2^31.  Scores are fractions of these steps; a score is the record       *)
(* [lo, hi] of the bounds that enclose the float the code returns.         *)
(***************************************************************************)
LogSteps == 3

RECURSIVE Pow(_, _)
Pow(x, n) == IF n = 0 THEN 1 ELSE x * Pow(x, n - 1)

\* the largest k in 0..LogSteps with (b+1)^k <= (v+1)^LogSteps
LogFloor(value, baseline) ==
    LET ks == {k \in 0..LogSteps : Pow(baseline + 1, k) <= Pow(value + 1, LogSteps)}
    IN  CHOOSE k \in ks : \A j \in ks : j <= k

\* _normalize_value, in steps of 100 / LogSteps
normalize_value(value, baseline) ==
    IF value <= 0 THEN [lo |-> 0, hi |-> 0]
    ELSE IF value >= baseline THEN [lo |-> LogSteps, hi |-> LogSteps]
    ELSE LET k == LogFloor(value, baseline)
         IN  IF Pow(baseline + 1, k) = Pow(value + 1, LogSteps)
             THEN [lo |-> k, hi |-> k]
             ELSE [lo |-> k, hi |-> k + 1]

\* PROJECT_WEIGHTS and DEVELOPER_WEIGHTS, in hundredths
PROJECT_WEIGHTS == [stars |-> 40, forks |-> 30, watchers |-> 30]
DEVELOPER_WEIGHTS ==
    [commits |-> 30, resolved_issues |-> 25, pull_requests |-> 25, code_reviews |-> 20]

\* the baselines passed to _normalize_value
BASELINES ==
    [stars |-> 1000, forks |-> 500, watchers |-> 200,
     commits |-> 100, resolved_issues |-> 50, pull_requests |-> 30, code_reviews |-> 40]

Hundred == Frac(100, 1)

\* min(score, 100)
MinFrac(a, b) == IF FracLe(a, b) THEN a ELSE b
\* a plausible slip: max(score, 100)
MaxFrac(a, b) == IF FracLe(a, b) THEN b ELSE a

\* the weighted sum of normalized values: (sum of hundredths * steps) / LogSteps
WeightedSum(metrics, weights, bound) ==
    LET fields == DOMAIN weights
        term(f) == weights[f] * normalize_value(metrics[f], BASELINES[f])[bound]
        RECURSIVE Sum(_)
        Sum(fs) == IF fs = {} THEN 0
                   ELSE LET f == CHOOSE f \in fs : TRUE IN term(f) + Sum(fs \ {f})
    IN  Frac(Sum(fields), LogSteps)

ProjectImportanceMax(metrics) ==
    [lo |-> MaxFrac(WeightedSum(metrics, PROJECT_WEIGHTS, "lo"), Hundred),
     hi |-> MaxFrac(WeightedSum(metrics, PROJECT_WEIGHTS, "hi"), Hundred)]

\* calculate_project_importance
calculate_project_importance(metrics) ==
    [lo |-> MinFrac(WeightedSum(metrics, PROJECT_WEIGHTS, "lo"), Hundred),
     hi |-> MinFrac(WeightedSum(metrics, PROJECT_WEIGHTS, "hi"), Hundred)]

\* calculate_developer_contribution
calculate_developer_contribution(metrics) ==
    [lo |-> MinFrac(WeightedSum(metrics, DEVELOPER_WEIGHTS, "lo"), Hundred),
     hi |-> MinFrac(WeightedSum(metrics, DEVELOPER_WEIGHTS, "hi"), Hundred)]

-----------------------------------------------------------------------------
(* The two score operations applied to bounded inputs *)

MetricValues == {0, 1, 30, 1000000000}

InitScore ==
    /\ \/ /\ phase = "calculate_project_importance"
          /\ project_metrics \in [DOMAIN PROJECT_WEIGHTS -> MetricValues]
          /\ developer_metrics = NoResult
       \/ /\ phase = "calculate_developer_contribution"
          /\ developer_metrics \in [DOMAIN DEVELOPER_WEIGHTS -> MetricValues]
          /\ project_metrics = NoResult
    /\ score_result = NoResult
    /\ developer_location = "" /\ network_locations = <<>> /\ nation_result = NoResult
    /\ repositories = <<>> /\ contributions = <<>> /\ domain_result = NoResult
    /\ ApiIdle

CalculateProjectImportance ==
    /\ phase = "calculate_project_importance"
    /\ score_result' = calculate_project_importance(project_metrics)
    /\ phase' = "returned"
    /\ UNCHANGED <<project_metrics, developer_metrics, nationVars, domainVars, apiVars>>

CalculateDeveloperContribution ==
    /\ phase = "calculate_developer_contribution"
    /\ score_result' = calculate_developer_contribution(developer_metrics)
    /\ phase' = "returned"
    /\ UNCHANGED <<project_metrics, developer_metrics, nationVars, domainVars, apiVars>>

NextScore == CalculateProjectImportance \/ CalculateDeveloperContribution

SpecScore == InitScore /\ [][NextScore]_vars

-----------------------------------------------------------------------------
(* GitHubDataCollector: what the upstream returns *)

(***************************************************************************)
(* The collector is modelled at the interface DeveloperAnalyzer awaits:    *)
(* every call either yields the upstream's value or raises.  (The methods  *)
(* of the shipped GitHubDataCollector are plain functions, so awaiting     *)
(* their return value raises TypeError; with that collector every call     *)
(* takes the raising branch.)                                              *)
(***************************************************************************)

Username == "dev"

MaxOwnedRepos == 1
UpstreamRepos == <<"dev/app", "dev/lib">>

\* get_developer_profile: "ann" follows and is followed, "bob" declares no location
get_developer_profile(identity, owned) ==
    CASE identity = "dev" ->
            [username |-> "dev", location |-> "", repositories |-> owned,
             followers |-> <<"ann", "bob">>, following |-> <<"ann">>]
      [] identity = "ann" ->
            [username |-> "ann", location |-> "London, UK", repositories |-> <<>>,
             followers |-> <<>>, following |-> <<>>]
      [] OTHER ->
            [username |-> identity, location |-> "", repositories |-> <<>>,
             followers |-> <<>>, following |-> <<>>]

\* get_repository_metrics
get_repository_metrics(repo_name) ==
    IF repo_name = "dev/app"
    THEN [stars |-> 150, forks |-> 30, watchers |-> 1,
          language |-> "Python", topics |-> <<"docker">>]
    ELSE [stars |-> 0, forks |-> 0, watchers |-> 0,
          language |-> "JavaScript", topics |-> <<>>]

\* get_developer_contributions
get_developer_contributions(username, repo_name) ==
    IF repo_name = "dev/app"
    THEN [commits_count |-> 30, resolved_issues |-> 1,
          pull_requests |-> 30, code_reviews |-> 0]
    ELSE [commits_count |-> 1, resolved_issues |-> 0,
          pull_requests |-> 0, code_reviews |-> 0]

\* the value a call yields
Yield(call, owned) ==
    CASE call.op = "get_developer_profile" -> get_developer_profile(call.arg, owned)
      [] call.op = "get_repository_metrics" -> get_repository_metrics(call.arg)
      [] call.op = "get_developer_contributions" ->
            get_developer_contributions(Username, call.arg)

-----------------------------------------------------------------------------
(* DeveloperAnalyzer *)

Call(op, arg, stage) == [op |-> op, arg |-> arg, stage |-> stage]

RECURSIVE CallEach(_, _, _)
CallEach(op, args, stage) ==
    IF args = <<>> THEN <<>>
    ELSE <<Call(op, Head(args), stage)>> \o CallEach(op, Tail(args), stage)

\* the loop of _calculate_talent_rank: two calls for every repository
RECURSIVE RankCalls(_)
RankCalls(repos) ==
    IF repos = <<>> THEN <<>>
    ELSE << Call("get_repository_metrics", Head(repos), "rank"),
            Call("get_developer_contributions", Head(repos), "rank") >>
         \o RankCalls(Tail(repos))

\* a plausible slip: the repository metrics fetched for the rank are reused
\* for the details, and not fetched again
FetchPlanReuseMetrics(profile) ==
    RankCalls(profile.repositories)
    \o CallEach("get_developer_profile", profile.followers, "followers")
    \o CallEach("get_developer_profile", profile.following, "following")
    \o CallEach("get_developer_contributions", profile.repositories, "contributions")

\* the calls analyze_developer awaits after the profile, in order
FetchPlan(profile) ==
    RankCalls(profile.repositories)
    \o CallEach("get_developer_profile", profile.followers, "followers")
    \o CallEach("get_developer_profile", profile.following, "following")
    \o CallEach("get_repository_metrics", profile.repositories, "details")
    \o CallEach("get_developer_contributions", profile.repositories, "contributions")

RankEnd(profile) == 2 * Len(profile.repositories)
NetworkEnd(profile) == RankEnd(profile) + Len(profile.followers) + Len(profile.following)

ZeroScore == [lo |-> Zero, hi |-> Zero]

ScoreAdd(a, b) == [lo |-> FracAdd(a.lo, b.lo), hi |-> FracAdd(a.hi, b.hi)]
ScoreMul(a, f) == [lo |-> FracMul(a.lo, f), hi |-> FracMul(a.hi, f)]

\* _calculate_activity_factor
calculate_activity_factor(repos) == One

\* calculate_final_score
calculate_final_score(project_score, contribution_score, activity_factor) ==
    ScoreMul(ScoreAdd(ScoreMul(project_score, Frac(4, 10)),
                      ScoreMul(contribution_score, Frac(6, 10))),
             activity_factor)

\* the end of _calculate_talent_rank, from the loop's totals
TalentRankOf(totals, repos) ==
    IF totals.repo_count = 0 THEN ZeroScore
    ELSE calculate_final_score(
            ScoreMul(totals.total_project_score, Frac(1, totals.repo_count)),
            ScoreMul(totals.total_contribution_score, Frac(1, totals.repo_count)),
            calculate_activity_factor(repos))

\* a handler that has not been called yet
IdleRequest ==
    [pc |-> "idle", force_refresh |-> FALSE, profile |-> NoResult,
     calls |-> <<>>, completed |-> 0, fetch_failed |-> FALSE,
     metrics |-> NoResult,
     totals |-> [total_project_score |-> ZeroScore,
                 total_contribution_score |-> ZeroScore, repo_count |-> 0],
     talent_rank |-> NoResult, locations |-> <<>>, nation |-> NoResult,
     details |-> <<>>, contributions |-> <<>>,
     analysis |-> NoResult, response |-> NoResult]

\* what the code does with the value of an awaited call
Absorb(q, call, value) ==
    CASE call.stage = "rank" /\ call.op = "get_repository_metrics" ->
            [q EXCEPT !.metrics = value]
      [] call.stage = "rank" /\ call.op = "get_developer_contributions" ->
            LET project_score ==
                    calculate_project_importance(
                        [stars |-> q.metrics.stars, forks |-> q.metrics.forks,
                         watchers |-> q.metrics.watchers])
                contribution_score ==
                    calculate_developer_contribution(
                        [commits |-> value.commits_count,
                         resolved_issues |-> value.resolved_issues,
                         pull_requests |-> value.pull_requests,
                         code_reviews |-> value.code_reviews])
            IN  [q EXCEPT !.metrics = NoResult,
                          !.totals = [total_project_score |->
                                          ScoreAdd(@.total_project_score, project_score),
                                      total_contribution_score |->
                                          ScoreAdd(@.total_contribution_score,
                                                   contribution_score),
                                      repo_count |-> @.repo_count + 1]]
      [] call.stage \in {"followers", "following"} ->
            IF value.location # ""
            THEN [q EXCEPT !.locations = Append(@, value.location)]
            ELSE q
      [] call.stage = "details" -> [q EXCEPT !.details = Append(@, value)]
      [] call.stage = "contributions" -> [q EXCEPT !.contributions = Append(@, value)]

\* the code between one awaited call and the next: the end of
\* _calculate_talent_rank, predict_nation, and classify_domains with the
\* DeveloperAnalysis stamped datetime.now(); then the handler's update_one
Resume(q, t) ==
    LET q1 == IF q.talent_rank = NoResult /\ q.completed >= RankEnd(q.profile)
              THEN [q EXCEPT !.talent_rank =
                                TalentRankOf(q.totals, q.profile.repositories)]
              ELSE q
        q2 == IF q1.nation = NoResult /\ q1.completed >= NetworkEnd(q1.profile)
              THEN [q1 EXCEPT !.nation =
                                predict_nation(q1.profile.location, q1.locations)]
              ELSE q1
    IN  IF q2.completed < Len(FetchPlan(q2.profile))
        THEN [q2 EXCEPT !.pc = "fetch"]
        ELSE [q2 EXCEPT !.pc = "update_one",
                        !.analysis =
                            [username |-> Username,
                             talent_rank |-> q2.talent_rank,
                             nation |-> q2.nation.nation,
                             nation_confidence |-> q2.nation.confidence,
                             domains |-> classify_domains(q2.details, q2.contributions),
                             profile |-> q2.profile,
                             last_updated |-> t]]

\* the handler returns or raises: its locals are gone; what stays is the
\* response, and whether an awaited call had failed
Finished(q, pc, response) ==
    [IdleRequest EXCEPT !.pc = pc, !.response = response,
                        !.force_refresh = q.force_refresh,
                        !.fetch_failed = q.fetch_failed]

Failed(q) == [q EXCEPT !.fetch_failed = TRUE]

\* a plausible slip: a failed call is skipped (best effort) and the analysis goes on
OnFetchFailureSkip(q, t) ==
    IF q.profile = NoResult
    THEN Finished(Failed(q), "error", [status |-> 500, body |-> NoResult])
    ELSE Resume([Failed(q) EXCEPT !.completed = @ + 1], t)

\* an awaited call raises: nothing in analyze_developer catches it, and the
\* handler's `except Exception` answers 500
OnFetchFailure(q, t) ==
    Finished(Failed(q), "error", [status |-> 500, body |-> NoResult])

-----------------------------------------------------------------------------
(* The API handler GET /api/v1/developers/{username} *)

cache_ttl == 3600

MaxRequests == 2
MaxClock == 3600

Requests == 1..MaxRequests

\* db.developers.find_one({"username": username}): a matching document, or
\* NoResult for None
find_one(documents, username) ==
    IF \E d \in documents : d.username = username
    THEN CHOOSE d \in documents : d.username = username
    ELSE NoResult

\* a plausible slip: the write is guarded by the timestamp, and a record that
\* is not newer than the stored one is dropped
update_one_if_newer(documents, username, data) ==
    IF \E d \in documents : d.username = username
    THEN IF data.last_updated > find_one(documents, username).last_updated
         THEN (documents \ {find_one(documents, username)}) \cup {data}
         ELSE documents
    ELSE documents \cup {data}

\* db.developers.update_one({"username": username}, {"$set": data}, upsert=True):
\* one matching document gets every field of data, or data is inserted
update_one(documents, username, data) ==
    IF \E d \in documents : d.username = username
    THEN (documents \ {find_one(documents, username)}) \cup {data}
    ELSE documents \cup {data}

Init ==
    /\ phase = "api"
    /\ now = 0
    /\ owned_repos \in {SubSeq(UpstreamRepos, 1, n) : n \in 0..MaxOwnedRepos}
    /\ store = {}
    /\ written = {}
    /\ req = [r \in Requests |-> IdleRequest]
    /\ developer_location = "" /\ network_locations = <<>> /\ nation_result = NoResult
    /\ repositories = <<>> /\ contributions = <<>> /\ domain_result = NoResult
    /\ project_metrics = NoResult /\ developer_metrics = NoResult /\ score_result = NoResult

Others == <<phase, nationVars, domainVars, scoreVars>>

\* time passes: just less than the cache's time to live, or exactly that
Tick ==
    /\ \E d \in {cache_ttl - 1, cache_ttl} :
          /\ now + d <= MaxClock
          /\ now' = now + d
    /\ UNCHANGED <<owned_repos, store, written, req, Others>>

\* the handler is called, and runs to its first await; the calls are
\* numbered in the order in which they are made
Arrive(r) ==
    /\ req[r].pc = "idle"
    /\ \A earlier \in 1..(r - 1) : req[earlier].pc # "idle"
    /\ \E force_refresh \in BOOLEAN :
          req' = [req EXCEPT ![r].force_refresh = force_refresh,
                             ![r].pc = IF force_refresh THEN "get_profile" ELSE "find_one"]
    /\ UNCHANGED <<now, owned_repos, store, written, Others>>

\* a plausible slip: a record exactly cache_ttl old is still served
CacheUsableInclusive(cached_data, t) ==
    cached_data # NoResult /\ t - cached_data.last_updated <= cache_ttl

\* `cached_data and (datetime.now() - cached_data["last_updated"]) <
\* timedelta(seconds=settings.cache_ttl)`
CacheUsable(cached_data, t) ==
    cached_data # NoResult /\ t - cached_data.last_updated < cache_ttl

\* find_one returns: a record younger than cache_ttl is the response
FindOne(r) ==
    /\ req[r].pc = "find_one"
    /\ LET cached_data == find_one(store, Username)
       IN  IF CacheUsable(cached_data, now)
           THEN req' = [req EXCEPT ![r] =
                           Finished(@, "done", [status |-> 200, body |-> cached_data])]
           ELSE req' = [req EXCEPT ![r].pc = "get_profile"]
    /\ UNCHANGED <<now, owned_repos, store, written, Others>>

\* analyze_developer's first call, get_developer_profile(username), returns or raises
GetProfile(r) ==
    /\ req[r].pc = "get_profile"
    /\ LET call == Call("get_developer_profile", Username, "profile")
           q == [req[r] EXCEPT !.calls = Append(@, call)]
       IN  \E ok \in BOOLEAN :
              req' = [req EXCEPT ![r] =
                        IF ok THEN Resume([q EXCEPT !.profile = Yield(call, owned_repos)], now)
                        ELSE OnFetchFailure(q, now)]
    /\ UNCHANGED <<now, owned_repos, store, written, Others>>

\* the next call of the plan returns or raises
Fetch(r) ==
    /\ req[r].pc = "fetch"
    /\ LET call == FetchPlan(req[r].profile)[req[r].completed + 1]
           q == [req[r] EXCEPT !.calls = Append(@, call)]
       IN  \E ok \in BOOLEAN :
              req' = [req EXCEPT ![r] =
                        IF ok
                        THEN Resume([Absorb(q, call, Yield(call, owned_repos))
                                        EXCEPT !.completed = @ + 1], now)
                        ELSE OnFetchFailure(q, now)]
    /\ UNCHANGED <<now, owned_repos, store, written, Others>>

\* update_one returns, and the handler answers with the fresh record
UpdateOne(r) ==
    /\ req[r].pc = "update_one"
    /\ LET developer_data == req[r].analysis
       IN  /\ store' = update_one(store, Username, developer_data)
           /\ req' = [req EXCEPT ![r] =
                         Finished(@, "done", [status |-> 200, body |-> developer_data])]
    /\ written' = written \cup {r}
    /\ UNCHANGED <<now, owned_repos, Others>>

Next ==
    \/ Tick
    \/ \E r \in Requests : Arrive(r)
    \/ \E r \in Requests : FindOne(r)
    \/ \E r \in Requests : GetProfile(r)
    \/ \E r \in Requests : Fetch(r)
    \/ \E r \in Requests : UpdateOne(r)

Spec == Init /\ [][Next]_vars

-----------------------------------------------------------------------------
(* Properties of predict_nation, checked under SpecNation *)

Returned == phase = "returned"

\* region i of the table has a keyword inside the lowercased, trimmed location
RegionMatches(i, location) ==
    /\ location # ""
    /\ \E k \in 1..Len(location_mapping[i].keywords) :
          Contains(Strip(Lower(location)), location_mapping[i].keywords[k])

\* the first region in table order that matches, None when no region does;
\* tabulated once over the locations the inputs are drawn from
RegionOf ==
    [location \in DeclaredLocations \cup NetworkLocations |->
        LET hits == {i \in 1..Len(location_mapping) : RegionMatches(i, location)}
        IN  IF hits = {} THEN None
            ELSE location_mapping[CHOOSE i \in hits : \A j \in hits : i <= j].nation]

MapsToRegion(location) == RegionOf[location] # None
FirstRegion(location) == RegionOf[location]

\* positions of the network entries that map to some region / to region n
MappedAt == {i \in 1..Len(network_locations) : RegionOf[network_locations[i]] # None}
VotesFor(n) == {i \in 1..Len(network_locations) : RegionOf[network_locations[i]] = n}
Voted == {RegionOf[network_locations[i]] : i \in MappedAt}
Leaders ==
    LET voted == Voted
        count == [n \in voted |-> Cardinality(VotesFor(n))]
    IN  {n \in voted : \A m \in voted : count[m] <= count[n]}
FirstVote(n) == CHOOSE i \in VotesFor(n) : \A j \in VotesFor(n) : i <= j

InUnitInterval(c) == c.den > 0 /\ FracLe(Zero, c) /\ FracLe(c, One)

\* C1 as stated: the confidence is in [0,1], and is 1.0 only when the declared
\* location is non-empty and maps to a region
C1_AsStated ==
    Returned =>
        /\ InUnitInterval(nation_result.confidence)
        /\ FracEq(nation_result.confidence, One) => MapsToRegion(developer_location)

\* C1 (amended): the confidence is in [0,1]; it is exactly 1.0 exactly when the
\* declared location maps to a region, or when the result comes from the
\* network vote and all network entries that map to a region map to the same one
C1_ConfidenceRange ==
    Returned =>
        /\ InUnitInterval(nation_result.confidence)
        /\ FracEq(nation_result.confidence, One)
              <=> (MapsToRegion(developer_location) \/ Cardinality(Voted) = 1)

\* the network vote is unanimous, with unmapped entries beside it, and the
\* declared location maps to nothing: the confidence is 1.0
C1_Witness ==
    /\ Returned
    /\ ~MapsToRegion(developer_location)
    /\ Cardinality(Voted) = 1
    /\ Cardinality(MappedAt) < Len(network_locations)
    /\ FracEq(nation_result.confidence, One)

\* C3: a non-empty declared location with a keyword of some region gives the
\* first such region in table order with confidence 1.0, whatever the network
C3_DeclaredLocationWins ==
    (Returned /\ MapsToRegion(developer_location)) =>
        /\ nation_result.nation = FirstRegion(developer_location)
        /\ nation_result.confidence = One

\* a declared location with keywords of two regions (India, United States), and
\* a network that votes for a third
C3_Witness ==
    /\ Returned
    /\ RegionMatches(2, developer_location)
    /\ RegionMatches(3, developer_location)
    /\ Voted = {"United Kingdom"}
    /\ nation_result = [nation |-> "United States", confidence |-> One]

\* C4: without a mapped declared location and with a mapped network entry, the
\* result is a region of highest count, with confidence count / mapped entries
C4_NetworkVote ==
    (Returned /\ ~MapsToRegion(developer_location) /\ MappedAt # {}) =>
        /\ nation_result.nation \in Leaders
        /\ FracEq(nation_result.confidence,
                  Frac(Cardinality(VotesFor(nation_result.nation)), Cardinality(MappedAt)))

\* two of three entries map, both to the United Kingdom
C4_Witness ==
    /\ Returned
    /\ developer_location = ""
    /\ network_locations = <<"London, UK", "london", "unknown place">>
    /\ nation_result = [nation |-> "United Kingdom", confidence |-> Frac(2, 2)]

\* C5: when several regions share the highest count, the one whose first
\* mapped entry comes earliest in network_locations is returned
C5_FirstEncounteredMaximum ==
    (Returned /\ ~MapsToRegion(developer_location) /\ Cardinality(Leaders) >= 2) =>
        /\ nation_result.nation \in Leaders
        /\ \A m \in Leaders : FirstVote(nation_result.nation) <= FirstVote(m)

\* a tie between the United Kingdom (first in the list) and China (first in
\* the table)
C5_Witness ==
    /\ Returned
    /\ ~MapsToRegion(developer_location)
    /\ Leaders = {"China", "United Kingdom"}
    /\ FirstVote("United Kingdom") < FirstVote("China")
    /\ nation_result.nation = "United Kingdom"

\* C6: without a mapped declared location and without a mapped network entry
\* the result is exactly ("Unknown", 0.0)
C6_Unknown ==
    (Returned /\ ~MapsToRegion(developer_location) /\ MappedAt = {}) =>
        nation_result = [nation |-> "Unknown", confidence |-> Zero]

\* a non-empty declared location that maps to nothing, and a network of empty
\* and unmapped entries only
C6_Witness ==
    /\ Returned
    /\ developer_location = "unknown place"
    /\ network_locations = <<"", "unknown place">>
    /\ nation_result = [nation |-> "Unknown", confidence |-> Zero]

-----------------------------------------------------------------------------
(* Properties of classify_domains, checked under SpecDomain *)

\* the domains a repository matches: by its lowercased language being a
\* keyword, or by a keyword being inside one of its lowercased topics;
\* tabulated once over the repositories the inputs are drawn from
MatchedDomains ==
    [repo \in Repositories |->
        {domain_keywords[i].domain : i \in
            {i \in 1..Len(domain_keywords) :
                \E k \in 1..Len(domain_keywords[i].keywords) :
                    LET keyword == domain_keywords[i].keywords[k]
                    IN  \/ repo.language # "" /\ Lower(repo.language) = keyword
                        \/ \E t \in 1..Len(repo.topics) :
                              Contains(Lower(repo.topics[t]), keyword)}}]

\* min(100, stars / 100), in hundredths
WeightOf(repo) == IF repo.stars < 10000 THEN repo.stars ELSE 10000

RECURSIVE SumWeights(_)
SumWeights(indices) ==
    IF indices = {} THEN 0
    ELSE LET i == CHOOSE i \in indices : TRUE
         IN  WeightOf(repositories[i]) + SumWeights(indices \ {i})

AllRepos == 1..Len(repositories)
ReposMatching(d) == {i \in AllRepos : d \in MatchedDomains[repositories[i]]}
AllMatched == UNION {MatchedDomains[repositories[i]] : i \in AllRepos}

\* C2 as stated: with a total weight of 0 the returned mapping has no keys
C2_AsStated ==
    (Returned /\ SumWeights(AllRepos) = 0) => DOMAIN domain_result = {}

\* C7: with a positive total weight W, every domain matched by some repository
\* has the value (sum of the weights of the repositories matching it) / W
C7_WeightedShare ==
    (Returned /\ SumWeights(AllRepos) > 0) =>
        \A d \in AllMatched :
            /\ d \in DOMAIN domain_result
            /\ FracEq(domain_result[d],
                      Frac(SumWeights(ReposMatching(d)), SumWeights(AllRepos)))

\* a repository matching two domains beside one of equal weight matching none
C7_Witness ==
    /\ Returned
    /\ Len(repositories) = 2
    /\ MatchedDomains[repositories[1]] = {"Backend", "DevOps"}
    /\ MatchedDomains[repositories[2]] = {}
    /\ WeightOf(repositories[1]) = 150
    /\ WeightOf(repositories[2]) = 150
    /\ DOMAIN domain_result = {"Backend", "DevOps"}
    /\ FracEq(domain_result["Backend"], Frac(1, 2))
    /\ FracEq(domain_result["DevOps"], Frac(1, 2))

\* C8: every value of the returned mapping is in [0,1]
C8_UnitInterval ==
    Returned => \A d \in DOMAIN domain_result : InUnitInterval(domain_result[d])

\* a repository whose language and two topics all match Frontend, alone
C8_Witness ==
    /\ Returned
    /\ Len(repositories) = 1
    /\ repositories[1].language = "JavaScript"
    /\ repositories[1].topics = <<"react", "web-app">>
    /\ repositories[1].stars > 0
    /\ FracEq(domain_result["Frontend"], One)

-----------------------------------------------------------------------------
(* Properties of the score operations, checked under SpecScore *)

ScoredMetrics == IF project_metrics # NoResult THEN project_metrics ELSE developer_metrics
ScoredWeights == IF project_metrics # NoResult THEN PROJECT_WEIGHTS ELSE DEVELOPER_WEIGHTS

RECURSIVE SumOf(_, _)
SumOf(f, fields) ==
    IF fields = {} THEN 0
    ELSE LET x == CHOOSE x \in fields : TRUE IN f[x] + SumOf(f, fields \ {x})

\* C9: for non-negative metrics either operation returns a score in [0,100],
\* exactly 0 for all-zero metrics; every normalized sub-score is in [0,100]
\* and the weights of either operation sum to 1
C9_ScoreRange ==
    Returned =>
        /\ FracLe(Zero, score_result.lo)
        /\ FracLe(score_result.lo, score_result.hi)
        /\ FracLe(score_result.hi, Hundred)
        /\ (\A f \in DOMAIN ScoredMetrics : ScoredMetrics[f] = 0)
              => (FracEq(score_result.lo, Zero) /\ FracEq(score_result.hi, Zero))
        /\ \A f \in DOMAIN ScoredMetrics :
              LET n == normalize_value(ScoredMetrics[f], BASELINES[f])
              IN  0 <= n.lo /\ n.lo <= n.hi /\ n.hi <= LogSteps
        /\ SumOf(ScoredWeights, DOMAIN ScoredWeights) = 100

\* the extreme case: every metric of a project is 10^9, and the score is 100
C9_Witness ==
    /\ Returned
    /\ project_metrics # NoResult
    /\ \A f \in DOMAIN project_metrics : project_metrics[f] = 1000000000
    /\ FracEq(score_result.lo, Hundred)
    /\ FracEq(score_result.hi, Hundred)

-----------------------------------------------------------------------------
(* Properties of the handler and of analyze_developer, checked under Spec *)

\* C10: once a call awaited by analyze_developer has failed for a request, the
\* request is answered 500 with no DeveloperAnalysis built and no update_one
\* run; a talent rank is only ever computed from all repositories of the
\* profile; and the step in which the call fails leaves the store as it was
C10_FailFast ==
    /\ [](\A r \in DOMAIN req :
            /\ req[r].fetch_failed =>
                  /\ req[r].pc = "error"
                  /\ req[r].analysis = NoResult
                  /\ req[r].response = [status |-> 500, body |-> NoResult]
                  /\ r \notin written
            /\ req[r].talent_rank # NoResult =>
                  req[r].totals.repo_count = Len(req[r].profile.repositories))
    /\ [][\A r \in DOMAIN req :
            (~req[r].fetch_failed /\ req'[r].fetch_failed) => store' = store]_vars

\* a request that asked for a refresh and was answered 500 after a failed
\* call, while the store holds the record that another request wrote
C10_Witness ==
    \E r \in DOMAIN req :
        /\ req[r].fetch_failed
        /\ req[r].force_refresh
        /\ req[r].response.status = 500
        /\ req[r].pc = "error"
        /\ \E d \in store : d.username = Username
        /\ written = DOMAIN req \ {r}

-----------------------------------------------------------------------------
(* The cache-or-recompute policy of the handler, checked under Spec *)

RecordsOf(documents, username) == {d \in documents : d.username = username}

\* a record for the username exists and is younger than cache_ttl
YoungRecord(documents, username, t) ==
    \E d \in RecordsOf(documents, username) : t - d.last_updated < cache_ttl

\* request r leaves position pc in this step
Leaves(r, pc) == req[r].pc = pc /\ req'[r].pc # pc

\* C11: a request without force_refresh is answered with the stored record,
\* with no analysis, no upstream call and no write, exactly when a record for
\* the username exists whose age now - last_updated is less than cache_ttl;
\* in every other case (no record, a record cache_ttl old or older, or
\* force_refresh) the handler starts a fresh analysis, and an analysis that
\* completes is upserted and answered; the store never holds two records for
\* one username
C11_CacheOrRecompute ==
    /\ [](Cardinality(RecordsOf(store, Username)) <= 1)
    /\ [][\A r \in Requests :
            /\ (Leaves(r, "idle") /\ req'[r].force_refresh) =>
                    req'[r].pc = "get_profile"
            /\ (Leaves(r, "idle") /\ ~req'[r].force_refresh) =>
                    req'[r].pc = "find_one"
            /\ Leaves(r, "find_one") =>
                    IF YoungRecord(store, Username, now)
                    THEN /\ req'[r].pc = "done"
                         /\ req'[r].response.status = 200
                         /\ req'[r].response.body \in RecordsOf(store, Username)
                         /\ req'[r].calls = <<>>
                         /\ store' = store
                         /\ r \notin written'
                    ELSE /\ req'[r].pc = "get_profile"
                         /\ store' = store
            /\ Leaves(r, "get_profile") =>
                    \/ req'[r].fetch_failed
                    \/ req'[r].calls = <<Call("get_developer_profile", Username, "profile")>>
            /\ Leaves(r, "update_one") =>
                    /\ req'[r].pc = "done"
                    /\ RecordsOf(store', Username) = {req[r].analysis}
                    /\ req'[r].response = [status |-> 200, body |-> req[r].analysis]
                    /\ r \in written'
            /\ (req[r].pc # "done" /\ req'[r].pc = "done") =>
                    req[r].pc \in {"find_one", "update_one"}
         ]_vars

\* a request without force_refresh answered from a record one second younger
\* than cache_ttl, which it did not write
C11_Witness ==
    \E r \in Requests :
        /\ req[r].pc = "done"
        /\ ~req[r].force_refresh
        /\ r \notin written
        /\ req[r].response.body \in store
        /\ now - req[r].response.body.last_updated = cache_ttl - 1

-----------------------------------------------------------------------------
(* The upstream calls of one analyze_developer call, checked under Spec *)

\* analyze_developer has returned to the handler, which is about to write
Analysed(r) == req[r].pc = "update_one"

Occurrences(seq, x) == Cardinality({i \in 1..Len(seq) : seq[i] = x})

\* how many times request r has called op with arg
Issued(r, op, arg) ==
    Cardinality({i \in 1..Len(req[r].calls) :
                    req[r].calls[i].op = op /\ req[r].calls[i].arg = arg})

Elements(seq) == {seq[i] : i \in 1..Len(seq)}

Neighbours(profile) == Elements(profile.followers) \cup Elements(profile.following)

\* the location the upstream reports for an identity
LocationOf(identity) == get_developer_profile(identity, <<>>).location

-----------------------------------------------------------------------------
(* Concurrent recomputations of one username, checked under Spec *)

\* no handler is between its call and its answer
Quiescent == \A r \in Requests : req[r].pc \in {"idle", "done", "error"}

\* the record request r produced and wrote
Produced(r) == req[r].response.body

=============================================================================
